---- MODULE Spec2Model ----
(***************************************************************************)
(* tuihost: an SSH gateway that forces every connection into one program   *)
(* running in a PTY.  The model covers the connection supervisor           *)
(* (src/src/server.rs), the per-connection session handler                 *)
(* (src/src/handler.rs) and the PTY adapter (src/src/pty.rs).              *)
(*                                                                         *)
(* The SSH engine (russh) and the PTY layer (pty_process) are the          *)
(* environment: the engine authenticates before it dispatches channel      *)
(* events, runs the handlers of one connection one at a time, stops        *)
(* dispatching once Session::disconnect was called, and drops the handler  *)
(* when the session ends.  Its reply calls (channel_success,               *)
(* channel_failure, disconnect) queue a packet and return Ok.              *)
(***************************************************************************)
EXTENDS Integers, Sequences, FiniteSets, TLC

\* ---------------------------------------------------------------- bounds
NumConns == 2          \* connections the server-level specification accepts
NumChannels == 2       \* channel ids a client uses on one connection
MaxInput == 2          \* bytes of channel data offered to one PTY
MaxSpawns == 2         \* PtySession::spawn attempts explored per connection
MaxTime == 3           \* clock ticks a connection is followed for
MaxChunks == 2         \* writes the child makes to its terminal
MaxReads == 2          \* reads of the forwarding task that return bytes
InCap == 1             \* bytes the input buffer of a terminal holds
OutCap == 4096         \* bytes the output buffer of a terminal holds
QueueCap == 1          \* messages the queue from the handle to the session holds

Conns == 1..NumConns
PtyIds == 1..MaxSpawns
Channels == 0..(NumChannels - 1)
\* Payloads of channel data, as byte sequences
Payloads == { <<"a">>, <<"b", "c">> }

\* Requested (cols, rows) of pty_request / window_change_request, as u32:
\* below the range and above 65535, inside the range, and above 65535 with
\* low 16 bits inside the range next to a value just above the range.
DimInputs == { <<0, 70000>>, <<200, 50>>, <<65836, 201>> }

\* u32 values probed through clamp_pty_size: around both ends of both ranges,
\* around 65535 and its multiples, and the largest value TLC represents
ClampProbes ==
    (0..11) \cup (199..201) \cup (499..501) \cup (65530..65550) \cup
    {65736, 65737, 66035, 66036, 66037, 131071, 131072, 131082, 2147483647}

\* max_connections settings explored (0 = unlimited)
MaxConnChoices == {0, 1}

\* max_session_duration settings explored, in ticks (0 = None)
DurationChoices == {0, 1, 2}

\* Sizes of the writes of the child to its terminal: one byte, and more than
\* one read buffer
ChunkSizes == {1, 5000}

\* ------------------------------------------------------- program constants
MIN_PTY_COLS == 10
MAX_PTY_COLS == 500
MIN_PTY_ROWS == 5
MAX_PTY_ROWS == 200
DEFAULT_COLS == 80
DEFAULT_ROWS == 24
U16 == 65536
BUF_LEN == 4096

VARIABLES
    max_connections,     \* TuiSshServer.max_connections
    max_session_duration,\* TuiSshServer.max_session_duration, 0 = None
    active_connections,  \* the shared AtomicUsize, read as a two's-complement
                         \* integer: a negative value n stands for 2^64 + n
    conn,                \* engine stage of each connection
    rejected,            \* new_client found the limit reached for it
    decrements,          \* fetch_sub calls executed on behalf of it
    elapsed,             \* clock ticks since new_client returned its handler
    pty_size,            \* SessionHandler.pty_size
    shell_requested,     \* SessionHandler.shell_requested
    pty_writers,         \* SessionHandler.pty_writers: channel -> PTY index, 0 = absent
    disconnect,          \* reason of the Session::disconnect call, "none" if none
    ptys,                \* PTY sessions spawned for the connection, in spawn order
    requested,           \* raw (cols, rows) of the latest pty_request, <<>> if none
    spawn_attempts,      \* calls of PtySession::spawn made for the connection
    last,                \* the handler call, or the iteration of a forwarding
                         \* task, that led to the state and what it answered,
                         \* NoCall if neither did
    handling,            \* the handler the dispatch task is suspended in, Idle
                         \* between two handlers
    map_lock,            \* holder of the Mutex around SessionHandler.pty_writers
    writer_lock,         \* holder of the Mutex around each PtyWriter
    inbuf,               \* bytes written to each PTY its program has not read yet
    owes,                \* bytes of the pending write of each program that its
                         \* terminal has not accepted yet
    queue                \* messages handed to the session handle and not yet
                         \* taken by the session task

srv == <<max_connections, max_session_duration, active_connections, rejected,
         decrements, elapsed>>
hst == <<pty_size, shell_requested, pty_writers>>
sync == <<handling, map_lock, writer_lock, inbuf, owes, queue>>
vars == <<max_connections, max_session_duration, active_connections, conn,
          rejected, decrements, elapsed, pty_size, shell_requested, pty_writers,
          disconnect, ptys, requested, spawn_attempts, last, handling, map_lock,
          writer_lock, inbuf, owes, queue>>

\* ------------------------------------------------------------ pure helpers
Clamp(x, lo, hi) == IF x < lo THEN lo ELSE IF x > hi THEN hi ELSE x

AsU16(x) == x % U16

\* the truncation to u16 without the clamp
clamp_pty_size_truncate_only(cols, rows) == << AsU16(cols), AsU16(rows) >>

clamp_pty_size(cols, rows) ==
    << Clamp(AsU16(cols), MIN_PTY_COLS, MAX_PTY_COLS),
       Clamp(AsU16(rows), MIN_PTY_ROWS, MAX_PTY_ROWS) >>

\* a >= b on usize values, a possibly wrapped (negative representative)
UsizeGe(a, b) == a < 0 \/ a >= b

fetch_add(v) == v + 1
fetch_sub(v) == v - 1

NoWriters == [ch \in Channels |-> 0]
\* the dispatch task is in its loop, between two handler calls
Idle == [op |-> "none", ch |-> 0, arg |-> <<>>, at |-> "loop", left |-> <<>>]
NoCall == [conn |-> 0, op |-> "none", ch |-> 0, ret |-> "none", reply |-> "none"]
Call(c, op, ch, ret, reply) ==
    [conn |-> c, op |-> op, ch |-> ch, ret |-> ret, reply |-> reply]

\* ------------------------------------------------------------------- Init
\* What TuiSshServer::new and the engine start from, whatever the settings
Started ==
    /\ active_connections = 0
    /\ conn = [c \in Conns |-> "idle"]
    /\ rejected = [c \in Conns |-> FALSE]
    /\ decrements = [c \in Conns |-> 0]
    /\ pty_size = [c \in Conns |-> <<DEFAULT_COLS, DEFAULT_ROWS>>]
    /\ shell_requested = [c \in Conns |-> FALSE]
    /\ pty_writers = [c \in Conns |-> NoWriters]
    /\ disconnect = [c \in Conns |-> "none"]
    /\ ptys = [c \in Conns |-> <<>>]
    /\ requested = [c \in Conns |-> <<>>]
    /\ spawn_attempts = [c \in Conns |-> 0]
    /\ elapsed = [c \in Conns |-> 0]
    /\ last = NoCall
    /\ handling = [c \in Conns |-> Idle]
    /\ map_lock = [c \in Conns |-> "free"]
    /\ writer_lock = [c \in Conns |-> [i \in PtyIds |-> "free"]]
    /\ inbuf = [c \in Conns |-> [i \in PtyIds |-> 0]]
    /\ owes = [c \in Conns |-> [i \in PtyIds |-> 0]]
    /\ queue = [c \in Conns |-> 0]

\* main.rs:88  the entry point configures the connection limit and no maximum
\* session duration
Init ==
    /\ max_connections \in MaxConnChoices
    /\ max_session_duration = 0
    /\ Started

\* server.rs:24-35  a server constructed with a maximum session duration
InitTimed ==
    /\ max_connections = 0
    /\ max_session_duration \in DurationChoices
    /\ Started

\* ------------------------------------------------- connection supervisor
\* server.rs:48  the over-limit test on the pre-increment value
OverLimit(current) ==
    max_connections > 0 /\ UsizeGe(current, max_connections)

\* server.rs:46-53  the counter after new_client: the increment, and the
\* roll-back when the limit was reached
CountAfterAdmit(current) ==
    IF OverLimit(current) THEN fetch_sub(fetch_add(current)) ELSE fetch_add(current)

\* server.rs:41-66  the handler is constructed and returned on both paths
new_client(c) ==
    /\ conn[c] = "idle"
    /\ \A o \in Conns : o < c => conn[o] # "idle"
    /\ LET current == active_connections IN
         /\ active_connections' = CountAfterAdmit(current)
         /\ rejected' = [rejected EXCEPT ![c] = OverLimit(current)]
         /\ decrements' = [decrements EXCEPT ![c] = IF OverLimit(current) THEN 1 ELSE 0]
    /\ conn' = [conn EXCEPT ![c] = "auth"]
    /\ pty_size' = [pty_size EXCEPT ![c] = <<DEFAULT_COLS, DEFAULT_ROWS>>]
    /\ shell_requested' = [shell_requested EXCEPT ![c] = FALSE]
    /\ pty_writers' = [pty_writers EXCEPT ![c] = NoWriters]
    /\ elapsed' = [elapsed EXCEPT ![c] = 0]
    /\ last' = NoCall
    /\ UNCHANGED <<max_connections, max_session_duration, disconnect, ptys, requested,
                   spawn_attempts, sync>>

\* The session of a connection ends: the client went away, the transport
\* failed, the inactivity timeout fired, or a requested disconnect completed.
SessionEnd(c) ==
    /\ conn[c] \in {"auth", "session"}
    /\ conn' = [conn EXCEPT ![c] = "ended"]
    /\ last' = NoCall
    /\ UNCHANGED <<srv, sync, hst, disconnect, ptys, requested, spawn_attempts>>

\* Dropping the writer map drops every PtyWriter it still holds.
CloseWriters(ps, w) ==
    [i \in DOMAIN ps |->
        IF \E ch \in Channels : w[ch] = i THEN [ps[i] EXCEPT !.writer = FALSE] ELSE ps[i]]

\* handler.rs:49-58  Drop for SessionHandler, then the drop of its fields.
\* The fields of a dropped handler no longer exist; they read as in
\* SessionHandler::new from then on.
Drop(c) ==
    /\ conn[c] = "ended"
    /\ conn' = [conn EXCEPT ![c] = "dropped"]
    /\ active_connections' = fetch_sub(active_connections)
    /\ decrements' = [decrements EXCEPT ![c] = @ + 1]
    /\ ptys' = [ptys EXCEPT ![c] = CloseWriters(@, pty_writers[c])]
    /\ pty_writers' = [pty_writers EXCEPT ![c] = NoWriters]
    /\ pty_size' = [pty_size EXCEPT ![c] = <<DEFAULT_COLS, DEFAULT_ROWS>>]
    /\ shell_requested' = [shell_requested EXCEPT ![c] = FALSE]
    /\ last' = NoCall
    /\ UNCHANGED <<max_connections, max_session_duration, rejected, elapsed, disconnect,
                   requested, spawn_attempts, sync>>

\* One unit of time passes for a connection whose client keeps it busy, so
\* that the inactivity timeout of the engine (server.rs:78) does not fire.
\* new_client hands max_session_duration to SessionHandler::new
\* (server.rs:60-65), which has no parameter and no field for it
\* (handler.rs:16-39): no deadline is stored and no timer is armed, so the
\* passing of time changes nothing but the age of the session.
Tick(c) ==
    /\ conn[c] \in {"auth", "session"}
    /\ disconnect[c] = "none"
    /\ elapsed[c] < MaxTime
    /\ elapsed' = [elapsed EXCEPT ![c] = @ + 1]
    /\ last' = NoCall
    /\ UNCHANGED <<max_connections, max_session_duration, active_connections,
                   rejected, decrements, conn, hst, disconnect, ptys, requested,
                   spawn_attempts, sync>>

\* ---------------------------------------------------------- session handler
Authenticating(c) == conn[c] = "auth" /\ disconnect[c] = "none"
\* The engine calls the handlers of a connection from one task, the next one
\* when the one before has returned.
Dispatching(c) == conn[c] = "session" /\ disconnect[c] = "none" /\ handling[c] = Idle

\* A handler that only logs and returns: nothing but the answer changes.
Answer(c, op, ret) ==
    /\ last' = Call(c, op, -1, ret, "none")
    /\ UNCHANGED <<srv, sync, conn, hst, disconnect, ptys, requested, spawn_attempts>>

\* handler.rs:63-89  every authentication method accepts
Accept(c, op) ==
    /\ Authenticating(c)
    /\ conn' = [conn EXCEPT ![c] = "session"]
    /\ last' = Call(c, op, -1, "Accept", "none")
    /\ UNCHANGED <<srv, sync, hst, disconnect, ptys, requested, spawn_attempts>>

auth_none(c) == Accept(c, "auth_none")
auth_password(c) == Accept(c, "auth_password")
auth_publickey(c) == Accept(c, "auth_publickey")

\* handler.rs:91-102
channel_open_session(c) ==
    /\ Dispatching(c)
    /\ Answer(c, "channel_open_session", "true")

\* handler.rs:104-123
pty_request(c, ch, cols, rows) ==
    /\ Dispatching(c)
    /\ pty_size' = [pty_size EXCEPT ![c] = clamp_pty_size(cols, rows)]
    /\ requested' = [requested EXCEPT ![c] = <<cols, rows>>]
    /\ last' = Call(c, "pty_request", ch, "Ok", "success")
    /\ UNCHANGED <<srv, sync, conn, shell_requested, pty_writers, disconnect, ptys, spawn_attempts>>

\* the one-shot guard left out
IsDuplicateShell_never(c) == FALSE

\* handler.rs:130  the one-shot guard
IsDuplicateShell(c) == shell_requested[c]

\* the default size handed to spawn whatever pty_request recorded
SpawnSize_default(c) == <<DEFAULT_COLS, DEFAULT_ROWS>>

\* handler.rs:145  the size handed to PtySession::spawn
SpawnSize(c) == pty_size[c]

\* pty.rs:11-38 and handler.rs:163-202  a spawned PTY session after split()
\* and the forwarding task that owns its read end:
\*   ch, size   the channel it was spawned for and its terminal size
\*   input      the bytes written to its input
\*   writer     its write end is open (the PtyWriter has not been dropped)
\*   closed     channel_close was handled for ch since the spawn
\*   child      the spawned process; chunks counts the writes it has made
\*   out        bytes the child wrote that no read has returned yet
\*   task       where the forwarding task is: "reading" (in pty_reader.read),
\*              "forwarding" (in handle.data), "done" (left the loop)
\*   buf        length of the chunk the task has read and not yet forwarded
\*   nread      bytes the task has read so far; reads counts its reads
\*   sent       the channel-data messages forwarded, <<offset, length>> each,
\*              offset being the position of the chunk in the child's output
\*   closes     calls of handle.close the task has made
NewPty(ch, size) ==
    [ch |-> ch, size |-> size, input |-> <<>>, writer |-> TRUE, closed |-> FALSE,
     child |-> "running", chunks |-> 0, out |-> 0,
     task |-> "reading", buf |-> 0, nread |-> 0, reads |-> 0, sent |-> <<>>,
     closes |-> 0]

\* handler.rs:131-136  a duplicate: disconnect the connection, spawn nothing
DuplicateShell(c, ch) ==
    /\ disconnect' = [disconnect EXCEPT ![c] = "duplicate shell request"]
    /\ last' = Call(c, "shell_request", ch, "Ok", "none")
    /\ UNCHANGED <<shell_requested, spawn_attempts, ptys, pty_writers>>

\* a spawn failure treated like a policy violation: no reply, disconnect
SpawnFailed_disconnects(c, ch) ==
    /\ disconnect' = [disconnect EXCEPT ![c] = "spawn failed"]
    /\ last' = Call(c, "shell_request", ch, "Ok", "none")
    /\ UNCHANGED <<ptys, pty_writers>>

\* handler.rs:154-158  spawn failed: channel failure, then return Ok
SpawnFailed(c, ch) ==
    /\ last' = Call(c, "shell_request", ch, "Ok", "failure")
    /\ UNCHANGED <<ptys, pty_writers, disconnect>>

\* handler.rs:161-204  spawn succeeded: channel success, the writer stored
\* under the channel, the forwarding task started
SpawnSucceeded(c, ch) ==
    /\ ptys' = [ptys EXCEPT ![c] = Append(@, NewPty(ch, SpawnSize(c)))]
    /\ pty_writers' = [pty_writers EXCEPT ![c][ch] = Len(ptys[c]) + 1]
    /\ last' = Call(c, "shell_request", ch, "Ok", "success")
    /\ UNCHANGED disconnect

\* the flag raised only when the spawn succeeded
MarkShellRequested_on_success(c) ==
    shell_requested' = [shell_requested EXCEPT ![c] = Len(ptys'[c]) > Len(ptys[c])]

\* handler.rs:138  the flag is raised before the spawn is attempted
MarkShellRequested(c) ==
    shell_requested' = [shell_requested EXCEPT ![c] = TRUE]

\* handler.rs:125-205  (pty.rs:11-33: spawn can fail at PTY creation, at the
\* initial resize or at the process launch)
shell_request(c, ch) ==
    /\ Dispatching(c)
    /\ spawn_attempts[c] < MaxSpawns
    /\ IF IsDuplicateShell(c)
       THEN DuplicateShell(c, ch)
       ELSE /\ spawn_attempts' = [spawn_attempts EXCEPT ![c] = @ + 1]
            /\ SpawnFailed(c, ch) \/ SpawnSucceeded(c, ch)
            /\ MarkShellRequested(c)
    /\ UNCHANGED <<srv, sync, conn, pty_size, requested>>

\* handler.rs:213 / 237  the writer looked up for a channel, 0 if there is none
WriterFor(c, ch) == pty_writers[c][ch]

\* the written bytes put in front of what the PTY already received
write_all_prepends(input, bytes, k) == SubSeq(bytes, 1, k) \o input

\* pty.rs:55-58  PtyWriter::write_all: the input of the PTY after the first k
\* bytes were written; the call succeeds iff k = Len(bytes), and when it
\* fails the bytes written before the failure stay written
write_all(input, bytes, k) == input \o SubSeq(bytes, 1, k)

\* the failure of the PTY operation returned to the engine
Swallow_propagates(c, op, ch, ok) ==
    /\ last' = Call(c, op, ch, IF ok THEN "Ok" ELSE "Err", "none")
    /\ UNCHANGED <<hst, disconnect>>

\* handler.rs:215-219 / 239-243  the result of the PTY operation is logged at
\* most: the handler returns Ok and touches neither its fields nor the session
Swallow(c, op, ch, ok) ==
    /\ last' = Call(c, op, ch, "Ok", "none")
    /\ UNCHANGED <<hst, disconnect>>

\* handler.rs:207-220
data(c, ch, bytes) ==
    /\ Dispatching(c)
    /\ LET i == WriterFor(c, ch) IN
         IF i # 0
         THEN /\ Len(ptys[c][i].input) + Len(bytes) <= MaxInput
              /\ \E k \in 0..Len(bytes) :
                   /\ ptys' = [ptys EXCEPT ![c][i].input = write_all(@, bytes, k)]
                   /\ Swallow(c, "data", ch, k = Len(bytes))
         ELSE /\ UNCHANGED ptys
              /\ Swallow(c, "data", ch, TRUE)
    /\ UNCHANGED <<srv, sync, conn, requested, spawn_attempts>>

\* the size of the window change stored for the spawn, like that of a
\* pty_request
window_change_request_stores(c, ch, cols, rows) ==
    /\ Dispatching(c)
    /\ pty_size' = [pty_size EXCEPT ![c] = clamp_pty_size(cols, rows)]
    /\ LET i == WriterFor(c, ch) IN
         IF i # 0
         THEN ptys' = [ptys EXCEPT ![c][i].size = clamp_pty_size(cols, rows)]
         ELSE UNCHANGED ptys
    /\ last' = Call(c, "window_change_request", ch, "Ok", "none")
    /\ UNCHANGED <<srv, sync, conn, shell_requested, pty_writers, disconnect, requested,
                   spawn_attempts>>

\* handler.rs:222-244  (pty.rs:60-64 resize)
window_change_request(c, ch, cols, rows) ==
    /\ Dispatching(c)
    /\ LET i == WriterFor(c, ch) IN
         IF i # 0
         THEN \E resized \in BOOLEAN :
                /\ ptys' = [ptys EXCEPT ![c][i].size =
                              IF resized THEN clamp_pty_size(cols, rows) ELSE @]
                /\ Swallow(c, "window_change_request", ch, resized)
         ELSE /\ UNCHANGED ptys
              /\ Swallow(c, "window_change_request", ch, TRUE)
    /\ UNCHANGED <<srv, sync, conn, requested, spawn_attempts>>

\* the entry left in the map
RemoveWriter_keeps(w, ch) == w

\* handler.rs:252  HashMap::remove
RemoveWriter(w, ch) == [w EXCEPT ![ch] = 0]

\* handler.rs:246-254  the removed Arc was the only owner: the write end closes
channel_close(c, ch) ==
    /\ Dispatching(c)
    /\ pty_writers' = [pty_writers EXCEPT ![c] = RemoveWriter(@, ch)]
    /\ ptys' = [ptys EXCEPT ![c] =
                  [i \in DOMAIN @ |->
                     LET dropped == /\ pty_writers[c][ch] = i
                                    /\ ~ \E o \in Channels : pty_writers'[c][o] = i
                     IN [@[i] EXCEPT !.writer = IF dropped THEN FALSE ELSE @,
                                     !.closed = IF ptys[c][i].ch = ch THEN TRUE ELSE @]]]
    /\ last' = Call(c, "channel_close", ch, "Ok", "none")
    /\ UNCHANGED <<srv, sync, conn, pty_size, shell_requested, disconnect, requested,
                   spawn_attempts>>

\* the half-close of the client handled like the close of its channels
channel_eof_closes(c) ==
    /\ Dispatching(c)
    /\ pty_writers' = [pty_writers EXCEPT ![c] = NoWriters]
    /\ ptys' = [ptys EXCEPT ![c] = CloseWriters(@, pty_writers[c])]
    /\ last' = Call(c, "channel_eof", -1, "Ok", "none")
    /\ UNCHANGED <<srv, sync, conn, pty_size, shell_requested, disconnect, requested,
                   spawn_attempts>>

\* handler.rs:256-263
channel_eof(c) == Dispatching(c) /\ Answer(c, "channel_eof", "Ok")

\* the request answered with a channel failure instead of the disconnect
Disconnect_fails_request(c, op, ch, reason) ==
    /\ last' = Call(c, op, ch, "Ok", "failure")
    /\ UNCHANGED <<srv, sync, conn, hst, disconnect, ptys, requested, spawn_attempts>>

\* handler.rs:294 / 308  Session::disconnect with the reason given
Disconnect(c, op, ch, reason) ==
    /\ disconnect' = [disconnect EXCEPT ![c] = reason]
    /\ last' = Call(c, op, ch, "Ok", "none")
    /\ UNCHANGED <<srv, sync, conn, hst, ptys, requested, spawn_attempts>>

\* handler.rs:281-296  the payload is only logged (lossy UTF-8, 100 chars)
exec_request(c, ch) ==
    Dispatching(c) /\ Disconnect(c, "exec_request", ch, "exec not permitted")

\* handler.rs:298-310
subsystem_request(c, ch) ==
    Dispatching(c) /\ Disconnect(c, "subsystem_request", ch, "subsystem not permitted")

\* handler.rs:312-354
env_request(c) == Dispatching(c) /\ Answer(c, "env_request", "Ok")
x11_request(c) == Dispatching(c) /\ Answer(c, "x11_request", "Ok")
signal(c) == Dispatching(c) /\ Answer(c, "signal", "Ok")

\* a forwarding request granted
Deny_grants(c, op) == Answer(c, op, "true")

\* handler.rs:367 ... 471  the forwarding requests log and return Ok(false),
\* whatever the address, port or socket path
Deny(c, op) == Answer(c, op, "false")

\* handler.rs:356-472
tcpip_forward(c) == Dispatching(c) /\ Deny(c, "tcpip_forward")
cancel_tcpip_forward(c) == Dispatching(c) /\ Deny(c, "cancel_tcpip_forward")
channel_open_direct_tcpip(c) == Dispatching(c) /\ Deny(c, "channel_open_direct_tcpip")
channel_open_forwarded_tcpip(c) ==
    Dispatching(c) /\ Deny(c, "channel_open_forwarded_tcpip")
channel_open_direct_streamlocal(c) ==
    Dispatching(c) /\ Deny(c, "channel_open_direct_streamlocal")
streamlocal_forward(c) == Dispatching(c) /\ Deny(c, "streamlocal_forward")
cancel_streamlocal_forward(c) == Dispatching(c) /\ Deny(c, "cancel_streamlocal_forward")
agent_request(c) == Dispatching(c) /\ Deny(c, "agent_request")

\* ------------------------------------------- spawned program, forwarding task
Min(a, b) == IF a < b THEN a ELSE b

\* pty.rs:5-8, 35-38  split() drops the Child handle without killing the
\* process: the program runs on, whatever happens to the channel or the
\* handler, writes to its terminal when it wants to ...
ChildWrite(c, i, n) ==
    /\ i \in DOMAIN ptys[c]
    /\ ptys[c][i].child = "running"
    /\ ptys[c][i].chunks < MaxChunks
    /\ ptys' = [ptys EXCEPT ![c][i].out = @ + n, ![c][i].chunks = @ + 1]
    /\ last' = NoCall
    /\ UNCHANGED <<srv, sync, conn, hst, disconnect, requested, spawn_attempts>>

\* ... and exits when it wants to, which is not while it is blocked in a write
ChildExit(c, i) ==
    /\ i \in DOMAIN ptys[c]
    /\ ptys[c][i].child = "running"
    /\ owes[c][i] = 0
    /\ ptys' = [ptys EXCEPT ![c][i].child = "exited"]
    /\ last' = NoCall
    /\ UNCHANGED <<srv, sync, conn, hst, disconnect, requested, spawn_attempts>>

\* One iteration step of the forwarding task of PTY i: the PTY as the step
\* leaves it, and what the step was
TaskStep(c, i, pty, outcome, sends) ==
    /\ ptys' = [ptys EXCEPT ![c][i] = pty]
    /\ last' = Call(c, "forwarding_task", ptys[c][i].ch, outcome, sends)
    /\ UNCHANGED <<srv, sync, conn, hst, disconnect, requested, spawn_attempts>>

\* pty.rs:45-49  the lengths a read into the 4096-byte buffer can return when
\* avail bytes are pending: all that fits, or a short read
ReadSizes(avail) == {1, Min(avail, BUF_LEN)}

\* pty.rs:45-49  the read completes on its own only when there are bytes to
\* return or when the program is gone; the task holds the read end, so
\* dropping the write end does not close the terminal under it
StreamClosed(p) == p.out = 0 /\ p.child = "exited"

\* handler.rs:183-184  Ok(n): the chunk is taken out of the buffer
TaskReadBytes(c, i) ==
    /\ i \in DOMAIN ptys[c]
    /\ LET p == ptys[c][i] IN
         /\ p.task = "reading"
         /\ p.out > 0
         /\ p.reads < MaxReads
         /\ \E n \in ReadSizes(p.out) :
              TaskStep(c, i, [p EXCEPT !.out = @ - n, !.buf = n, !.nread = @ + n,
                                      !.reads = @ + 1, !.task = "forwarding"],
                       "bytes", "none")

\* handler.rs:184-185  handle.data succeeded: one channel-data message with
\* the chunk, and back to the read
Forwarded(p) ==
    [p EXCEPT !.sent = Append(@, <<p.nread - p.buf, p.buf>>), !.buf = 0,
              !.task = "reading"]

\* the channel closed when the forwarding fails
ForwardFailed_closes(p) == [p EXCEPT !.buf = 0, !.task = "done", !.closes = @ + 1]

\* handler.rs:185-190  handle.data failed: break, without closing the channel
ForwardFailed(p) == [p EXCEPT !.buf = 0, !.task = "done"]

\* handler.rs:184-191  handle.data hands the chunk to the session task; it
\* fails when the session is gone
TaskForward(c, i) ==
    /\ i \in DOMAIN ptys[c]
    /\ LET p == ptys[c][i] IN
         /\ p.task = "forwarding"
         /\ IF conn[c] = "session"
            THEN TaskStep(c, i, Forwarded(p), "forwarded", "data")
            ELSE TaskStep(c, i, ForwardFailed(p), "forward_failed", "none")

\* handler.rs:178-182 / 196-197  handle.close, then break
ClosedChannel(p) == [p EXCEPT !.task = "done", !.closes = @ + 1]

\* handler.rs:178-182  Ok(0)
TaskReadEof(c, i) ==
    /\ i \in DOMAIN ptys[c]
    /\ LET p == ptys[c][i] IN
         /\ p.task = "reading"
         /\ StreamClosed(p)
         /\ TaskStep(c, i, ClosedChannel(p), "eof", "close")

\* handler.rs:193-199  Err(e), e.kind() != WouldBlock
TaskReadError(c, i) ==
    /\ i \in DOMAIN ptys[c]
    /\ LET p == ptys[c][i] IN
         /\ p.task = "reading"
         /\ StreamClosed(p)
         /\ TaskStep(c, i, ClosedChannel(p), "error", "close")

\* handler.rs:193-199  Err(e), e.kind() == WouldBlock: the loop goes round
TaskReadWouldBlock(c, i) ==
    /\ i \in DOMAIN ptys[c]
    /\ LET p == ptys[c][i] IN
         /\ p.task = "reading"
         /\ p.out = 0 /\ p.child = "running"
         /\ TaskStep(c, i, p, "would_block", "none")

\* handler.rs:174-202  the forwarding task
ForwardingTask(c, i) ==
    \/ TaskReadBytes(c, i)
    \/ TaskForward(c, i)
    \/ TaskReadEof(c, i)
    \/ TaskReadError(c, i)
    \/ TaskReadWouldBlock(c, i)

Child(c, i) ==
    \/ \E n \in ChunkSizes : ChildWrite(c, i, n)
    \/ ChildExit(c, i)

\* ------------------------------- the handlers and the tasks, step by step
\* The handlers that use a PtyWriter, with the points at which they can be
\* suspended, the locks they hold there, and the bounded buffers between the
\* dispatch task, the forwarding task and the program: the input and the
\* output buffer of the terminal, and the queue through which handle.data
\* passes a message to the session task, which takes messages from it in its
\* loop, between two handler calls.
InHandler(op, ch, arg, at, left) ==
    [op |-> op, ch |-> ch, arg |-> arg, at |-> at, left |-> left]

\* handler.rs:213 / 237  self.pty_writers.lock().await.get(&channel): the
\* lock of the map is taken and the channel looked up.  The guard is a
\* temporary of the scrutinee of the `if let`: it is held to the end of the
\* statement, over the body when there is a writer, and released at once
\* when there is none, in which case the handler returns Ok.
LockMap(c, op, ch, arg, left) ==
    /\ Dispatching(c)
    /\ map_lock[c] = "free"
    /\ IF WriterFor(c, ch) # 0
       THEN /\ map_lock' = [map_lock EXCEPT ![c] = "dispatch"]
            /\ handling' = [handling EXCEPT ![c] = InHandler(op, ch, arg, "map_locked", left)]
            /\ last' = NoCall
            /\ UNCHANGED <<hst, disconnect>>
       ELSE /\ Swallow(c, op, ch, TRUE)
            /\ UNCHANGED <<map_lock, handling>>
    /\ UNCHANGED <<srv, conn, ptys, requested, spawn_attempts, writer_lock, inbuf, owes,
                   queue>>

\* handler.rs:207-213
data_lookup(c, ch, bytes) ==
    /\ WriterFor(c, ch) # 0 => Len(ptys[c][WriterFor(c, ch)].input) + Len(bytes) <= MaxInput
    /\ LockMap(c, "data", ch, bytes, bytes)

\* handler.rs:222-237
window_change_lookup(c, ch, cols, rows) ==
    LockMap(c, "window_change_request", ch, clamp_pty_size(cols, rows), <<>>)

\* the handler going on without the lock of the writer
LockWriter_skips(c) ==
    /\ handling[c].at = "map_locked"
    /\ handling' = [handling EXCEPT ![c].at = "writer_locked"]
    /\ last' = NoCall
    /\ UNCHANGED <<srv, conn, hst, disconnect, ptys, requested, spawn_attempts, map_lock,
                   writer_lock, inbuf, owes, queue>>

\* handler.rs:214 / 238  writer.lock().await, with the lock of the map held
LockWriter(c) ==
    /\ handling[c].at = "map_locked"
    /\ LET i == WriterFor(c, handling[c].ch) IN
         /\ writer_lock[c][i] = "free"
         /\ writer_lock' = [writer_lock EXCEPT ![c][i] = "dispatch"]
    /\ handling' = [handling EXCEPT ![c].at = "writer_locked"]
    /\ last' = NoCall
    /\ UNCHANGED <<srv, conn, hst, disconnect, ptys, requested, spawn_attempts, map_lock,
                   inbuf, owes, queue>>

\* handler.rs:218-219 / 242-243  the end of the `if let`: the guards of the
\* writer and of the map are dropped and the handler returns Ok
Return(c, i, ok) ==
    /\ Swallow(c, handling[c].op, handling[c].ch, ok)
    /\ handling' = [handling EXCEPT ![c] = Idle]
    /\ writer_lock' = [writer_lock EXCEPT ![c][i] = "free"]
    /\ map_lock' = [map_lock EXCEPT ![c] = "free"]

\* handler.rs:215, pty.rs:55-58  write_all goes on: the terminal accepts what
\* its input buffer has room for.  With the buffer full the handler stays
\* suspended in write_all, both locks held, until the program has read.
data_write(c) ==
    /\ handling[c].op = "data" /\ handling[c].at = "writer_locked"
    /\ LET i == WriterFor(c, handling[c].ch)
           left == handling[c].left
           k == Min(Len(left), InCap - inbuf[c][i])
       IN /\ k > 0
          /\ ptys' = [ptys EXCEPT ![c][i].input = write_all(@, left, k)]
          /\ inbuf' = [inbuf EXCEPT ![c][i] = @ + k]
          /\ IF k = Len(left)
             THEN Return(c, i, TRUE)
             ELSE /\ handling' = [handling EXCEPT ![c].left = SubSeq(left, k + 1, Len(left))]
                  /\ last' = NoCall
                  /\ UNCHANGED <<hst, disconnect, writer_lock, map_lock>>
    /\ UNCHANGED <<srv, conn, requested, spawn_attempts, owes, queue>>

\* handler.rs:215-217  write_all returns the error of a write, which a
\* terminal gives once its program is gone: the bytes written before stay
\* written, the rest of the payload is dropped
data_write_fails(c) ==
    /\ handling[c].op = "data" /\ handling[c].at = "writer_locked"
    /\ ptys[c][WriterFor(c, handling[c].ch)].child = "exited"
    /\ Return(c, WriterFor(c, handling[c].ch), FALSE)
    /\ UNCHANGED <<srv, conn, ptys, requested, spawn_attempts, inbuf, owes, queue>>

\* handler.rs:239-243, pty.rs:60-64  resize does not suspend
window_change_resize(c) ==
    /\ handling[c].op = "window_change_request" /\ handling[c].at = "writer_locked"
    /\ LET i == WriterFor(c, handling[c].ch) IN
         \E resized \in BOOLEAN :
            /\ ptys' = [ptys EXCEPT ![c][i].size = IF resized THEN handling[c].arg ELSE @]
            /\ Return(c, i, resized)
    /\ UNCHANGED <<srv, conn, requested, spawn_attempts, inbuf, owes, queue>>

\* The session task takes a message of the forwarding task from the queue
\* and sends it to the client.  It does so in its loop, not while it waits
\* for a handler to return.
TakeMessage(c) ==
    /\ conn[c] = "session"
    /\ handling[c] = Idle
    /\ queue[c] > 0
    /\ queue' = [queue EXCEPT ![c] = @ - 1]
    /\ last' = NoCall
    /\ UNCHANGED <<srv, conn, hst, disconnect, ptys, requested, spawn_attempts, handling,
                   map_lock, writer_lock, inbuf, owes>>

\* handler.rs:184-185  handle.data(channel, data).await puts the chunk in the
\* queue; with the queue full the task stays suspended in handle.data
TaskEnqueue(c, i) ==
    /\ i \in DOMAIN ptys[c]
    /\ conn[c] = "session"
    /\ ptys[c][i].task = "forwarding"
    /\ queue[c] < QueueCap
    /\ queue' = [queue EXCEPT ![c] = @ + 1]
    /\ ptys' = [ptys EXCEPT ![c][i] = Forwarded(@)]
    /\ last' = Call(c, "forwarding_task", ptys[c][i].ch, "forwarded", "data")
    /\ UNCHANGED <<srv, conn, hst, disconnect, requested, spawn_attempts, handling,
                   map_lock, writer_lock, inbuf, owes>>

\* The program reads what was written to its terminal
ProgramRead(c, i) ==
    /\ i \in DOMAIN ptys[c]
    /\ ptys[c][i].child = "running" /\ owes[c][i] = 0
    /\ inbuf[c][i] > 0
    /\ inbuf' = [inbuf EXCEPT ![c][i] = 0]
    /\ last' = NoCall
    /\ UNCHANGED <<srv, conn, hst, disconnect, ptys, requested, spawn_attempts, handling,
                   map_lock, writer_lock, owes, queue>>

\* The terminal accepts of a write of n bytes what its output buffer has room
\* for; the program stays blocked in the write for the rest
Accepted(p, n) == Min(n, OutCap - p.out)

\* The writes of the program that do not fit in the output buffer at once
Floods == {n \in ChunkSizes : n > OutCap}

\* The program writes n bytes to its terminal
ProgramWrite(c, i, n) ==
    /\ i \in DOMAIN ptys[c]
    /\ ptys[c][i].child = "running" /\ owes[c][i] = 0
    /\ ptys[c][i].chunks < MaxChunks
    /\ LET a == Accepted(ptys[c][i], n) IN
         /\ ptys' = [ptys EXCEPT ![c][i].out = @ + a, ![c][i].chunks = @ + 1]
         /\ owes' = [owes EXCEPT ![c][i] = n - a]
    /\ last' = NoCall
    /\ UNCHANGED <<srv, conn, hst, disconnect, requested, spawn_attempts, handling,
                   map_lock, writer_lock, inbuf, queue>>

\* The blocked write of the program goes on when the forwarding task has
\* read from the terminal
ProgramResume(c, i) ==
    /\ i \in DOMAIN ptys[c]
    /\ owes[c][i] > 0
    /\ LET a == Accepted(ptys[c][i], owes[c][i]) IN
         /\ a > 0
         /\ ptys' = [ptys EXCEPT ![c][i].out = @ + a]
         /\ owes' = [owes EXCEPT ![c][i] = @ - a]
    /\ last' = NoCall
    /\ UNCHANGED <<srv, conn, hst, disconnect, requested, spawn_attempts, handling,
                   map_lock, writer_lock, inbuf, queue>>

\* ------------------------------------------------------------ specifications
\* The arguments of these handlers (channel, address, port, path, name,
\* value, signal) are only logged; they are left out of the actions.
Forwarding(c) ==
    \/ tcpip_forward(c)
    \/ cancel_tcpip_forward(c)
    \/ streamlocal_forward(c)
    \/ cancel_streamlocal_forward(c)
    \/ channel_open_direct_tcpip(c)
    \/ channel_open_forwarded_tcpip(c)
    \/ channel_open_direct_streamlocal(c)
    \/ agent_request(c)

Ignored(c) ==
    \/ channel_eof(c)
    \/ env_request(c)
    \/ x11_request(c)
    \/ signal(c)

\* The events that open, use up and end a session.
Shell(c, chans) ==
    \/ auth_none(c)
    \/ auth_password(c)
    \/ auth_publickey(c)
    \/ channel_open_session(c)
    \/ \E ch \in chans : shell_request(c, ch)
    \/ \E ch \in chans : channel_close(c, ch)
    \/ \E ch \in chans : exec_request(c, ch)
    \/ \E ch \in chans : subsystem_request(c, ch)

\* The events that size and feed the terminal.
Terminal(c, chans, dims, bytes) ==
    \/ \E ch \in chans, d \in dims : pty_request(c, ch, d[1], d[2])
    \/ \E ch \in chans, b \in bytes : data(c, ch, b)
    \/ \E ch \in chans, d \in dims : window_change_request(c, ch, d[1], d[2])

Lifecycle(c) ==
    \/ new_client(c)
    \/ SessionEnd(c)
    \/ Drop(c)

\* One connection, every event and every input.
Next ==
    \/ Lifecycle(1)
    \/ Shell(1, Channels)
    \/ Terminal(1, Channels, DimInputs, Payloads)
    \/ Ignored(1)
    \/ Forwarding(1)

Spec == Init /\ [][Next]_vars

\* Several connections against the shared counter: each one is accepted,
\* authenticates, opens its session, asks for the shell and ends in every way
\* a session can end.
NextServer ==
    \E c \in Conns :
        \/ Lifecycle(c)
        \/ Shell(c, {0})

SpecServer == Init /\ [][NextServer]_vars

\* One connection of a server without limits, its shell channel, the program
\* spawned for it and the forwarding task.
InitTask ==
    /\ max_connections = 0
    /\ max_session_duration = 0
    /\ Started

NextTask ==
    \/ Lifecycle(1)
    \/ auth_none(1)
    \/ shell_request(1, 0)
    \/ channel_close(1, 0)
    \/ \E b \in Payloads : data(1, 0, b)
    \/ \E d \in { <<200, 50>>, <<0, 70000>> } : window_change_request(1, 0, d[1], d[2])
    \/ \E i \in PtyIds : Child(1, i)
    \/ \E i \in PtyIds : ForwardingTask(1, i)

SpecTask == InitTask /\ [][NextTask]_vars

\* One connection, its shell channel, the program and the forwarding task,
\* with the handlers that use the writer taken step by step.  The program
\* writes more than its terminal buffers, so that its writes wait for the
\* forwarding task.
NextSync ==
    \/ new_client(1)
    \/ auth_none(1)
    \/ shell_request(1, 0)
    \/ channel_close(1, 0)
    \/ \E b \in Payloads : data_lookup(1, 0, b)
    \/ \E d \in { <<200, 50>> } : window_change_lookup(1, 0, d[1], d[2])
    \/ LockWriter(1)
    \/ data_write(1)
    \/ data_write_fails(1)
    \/ window_change_resize(1)
    \/ TakeMessage(1)
    \/ \E i \in PtyIds : TaskReadBytes(1, i)
    \/ \E i \in PtyIds : TaskEnqueue(1, i)
    \/ \E i \in PtyIds : TaskReadEof(1, i)
    \/ \E i \in PtyIds : TaskReadError(1, i)
    \/ \E i \in PtyIds : TaskReadWouldBlock(1, i)
    \/ \E i \in PtyIds : ProgramRead(1, i)
    \/ \E i \in PtyIds, n \in Floods : ProgramWrite(1, i, n)
    \/ \E i \in PtyIds : ProgramResume(1, i)
    \/ \E i \in PtyIds : ChildExit(1, i)

SpecSync == InitTask /\ [][NextSync]_vars

\* One connection of a server with a maximum session duration, followed
\* through time while its client stays active.
NextTimed ==
    \/ Lifecycle(1)
    \/ Shell(1, {0})
    \/ Terminal(1, {0}, { <<200, 50>> }, Payloads)
    \/ Tick(1)

SpecTimed == InitTimed /\ [][NextTimed]_vars

\* ===================================================================== claims
InRange(size) ==
    /\ MIN_PTY_COLS <= size[1] /\ size[1] <= MAX_PTY_COLS
    /\ MIN_PTY_ROWS <= size[2] /\ size[2] <= MAX_PTY_ROWS
Live(c) == conn[c] \in {"auth", "session", "ended"}

\* Every handler call records itself in last and every other step clears it,
\* so last' names the handler, connection and channel a step is for.
HandledOn(c, op, ch) == last'.conn = c /\ last'.op = op /\ last'.ch = ch

ForwardingOps ==
    { "tcpip_forward", "cancel_tcpip_forward", "channel_open_direct_tcpip",
      "channel_open_forwarded_tcpip", "channel_open_direct_streamlocal",
      "streamlocal_forward", "cancel_streamlocal_forward", "agent_request" }

\* C1: on one connection PtySession::spawn is attempted at most once; a
\* shell_request that finds the shell already requested spawns no process,
\* stores no writer, starts no forwarding task and asks for the disconnect of
\* the connection with the reason "duplicate shell request".
C1_SingleShell ==
    [][LET c == last'.conn IN
       c \in Conns =>
          /\ spawn_attempts'[c] <= 1
          /\ Len(ptys'[c]) <= 1
          /\ Cardinality({o \in Channels : pty_writers'[c][o] # 0}) <= 1
          /\ (last'.op = "shell_request" /\ shell_requested[c]) =>
               /\ spawn_attempts'[c] = spawn_attempts[c]
               /\ ptys'[c] = ptys[c]
               /\ pty_writers'[c] = pty_writers[c]
               /\ disconnect'[c] = "duplicate shell request"
               /\ last'.ret = "Ok"]_vars

\* C1 witness: a second shell_request arrived after a successful first one
C1_Witness ==
    /\ last = Call(1, "shell_request", 1, "Ok", "none")
    /\ disconnect[1] = "duplicate shell request"
    /\ Len(ptys[1]) = 1
    /\ pty_writers[1][0] = 1

\* C2: the active-connection counter never goes below zero (the unsigned
\* counter never wraps) and no connection has fetch_sub executed for it twice.
C2_CounterNeverUnderflows ==
    /\ active_connections >= 0
    /\ \A c \in Conns : decrements[c] <= 1

\* C3: whenever every live handler belongs to an admitted connection, the
\* counter equals the number of live handlers, and an admitted connection has
\* been released exactly once when its handler is gone and not before.
C3_CounterMatchesHandlers ==
    /\ \A c \in Conns :
         (conn[c] # "idle" /\ ~rejected[c]) =>
             decrements[c] = IF conn[c] = "dropped" THEN 1 ELSE 0
    /\ (\A c \in Conns : Live(c) => ~rejected[c]) =>
           active_connections = Cardinality({c \in Conns : Live(c)})

\* C4: a connection that arrives with the nonzero maximum reached is never
\* served: its handler handles no event and gets no PTY, so at most
\* max_connections connections are in a session at once.
C4_LimitEnforced ==
    /\ \A c \in Conns : rejected[c] => (last.conn # c /\ ptys[c] = <<>>)
    /\ max_connections > 0 =>
         Cardinality({c \in Conns : conn[c] = "session"}) <= max_connections

\* C5: the effective dimensions of every request are within 10..500 columns
\* and 5..200 rows, and so are the stored pty_size and the size of every PTY
\* after any sequence of requests.
C5_SizesInRange ==
    /\ \A d \in DimInputs : InRange(clamp_pty_size(d[1], d[2]))
    /\ \A x \in ClampProbes : InRange(clamp_pty_size(x, x))
    /\ \A c \in Conns :
         /\ InRange(pty_size[c])
         /\ \A i \in DOMAIN ptys[c] : InRange(ptys[c][i].size)

\* C5 witness: a request below the range in columns and above 65535 in rows
\* was stored, and the PTY spawned with it was resized by a request above
\* 65535 in columns
C5_Witness ==
    /\ requested[1] = <<0, 70000>>
    /\ pty_size[1] = <<10, 200>>
    /\ Len(ptys[1]) = 1
    /\ ptys[1][1].size = <<300, 200>>
    /\ last.op = "window_change_request"

\* C6: after channel_close for a channel the writer map does not contain the
\* channel, whatever event follows, and data and window_change_request for a
\* channel without a writer write to no PTY and resize none.
C6_ClosedChannelDetached ==
    [][\A c \in Conns, ch \in Channels :
          /\ HandledOn(c, "channel_close", ch) => pty_writers'[c][ch] = 0
          /\ last = Call(c, "channel_close", ch, "Ok", "none") => pty_writers'[c][ch] = 0
          /\ ((HandledOn(c, "data", ch) \/ HandledOn(c, "window_change_request", ch))
                /\ pty_writers[c][ch] = 0)
                => ptys' = ptys]_vars

\* C7: exec_request and subsystem_request, before or after the shell was
\* opened and whatever the payload, ask for the disconnect of the connection,
\* return Ok, spawn nothing and leave the shell-requested flag, the stored PTY
\* size and the writer map as they were.
C7_ExecSubsystemDisconnect ==
    [][LET c == last'.conn
           op == last'.op IN
       c \in Conns =>
          /\ op = "exec_request" => disconnect'[c] = "exec not permitted"
          /\ op = "subsystem_request" => disconnect'[c] = "subsystem not permitted"
          /\ op \in {"exec_request", "subsystem_request"} =>
               /\ last'.ret = "Ok" /\ last'.reply = "none"
               /\ UNCHANGED <<shell_requested, pty_size, pty_writers, ptys, spawn_attempts>>]_vars

\* C7 witness: an exec_request was handled after the shell had been opened
C7_Witness ==
    /\ last = Call(1, "exec_request", 0, "Ok", "none")
    /\ disconnect[1] = "exec not permitted"
    /\ Len(ptys[1]) = 1
    /\ pty_writers[1][0] = 1

\* C8: every forwarding-type request returns the negative result, asks for no
\* disconnect, spawns nothing and leaves the handler as it was: a shell
\* channel open before the request has its writer and is served afterwards.
C8_ForwardingDenied ==
    [][LET c == last'.conn IN
       (c \in Conns /\ last'.op \in ForwardingOps) =>
             /\ last'.ret = "false" /\ last'.reply = "none"
             /\ disconnect'[c] = "none" /\ conn'[c] = "session"
             /\ UNCHANGED <<shell_requested, pty_size, pty_writers, ptys, spawn_attempts,
                            active_connections>>]_vars

\* C8 witness: a remote port forward was denied on a connection whose shell
\* channel has data in its PTY and is still dispatching
C8_Witness ==
    /\ last = Call(1, "tcpip_forward", -1, "false", "none")
    /\ Dispatching(1)
    /\ pty_writers[1][0] = 1
    /\ ptys[1][1].writer /\ ptys[1][1].input = <<"a">>

\* C9: when the spawn of the first shell_request fails, the handler answers
\* channel failure, returns Ok, asks for no disconnect, stores no writer,
\* starts no forwarding task and leaves the active-connection counter alone.
C9_SpawnFailure ==
    [][LET c == last'.conn IN
          (/\ c \in Conns
           /\ last'.op = "shell_request"
           /\ spawn_attempts'[c] = spawn_attempts[c] + 1
           /\ Len(ptys'[c]) = Len(ptys[c]))
          => /\ last'.ret = "Ok" /\ last'.reply = "failure"
             /\ disconnect'[c] = "none" /\ conn'[c] = "session"
             /\ pty_writers'[c] = NoWriters
             /\ ptys'[c] = <<>>
             /\ active_connections' = active_connections]_vars

\* C9 witness: the first shell_request failed to spawn and the connection is
\* still served
C9_Witness ==
    /\ last = Call(1, "shell_request", 0, "Ok", "failure")
    /\ Dispatching(1)
    /\ spawn_attempts[1] = 1 /\ ptys[1] = <<>>
    /\ active_connections = 1

\* The clamped size of the latest pty_request, 80x24 if there was none
NegotiatedSize(c) ==
    IF requested[c] = <<>> THEN <<DEFAULT_COLS, DEFAULT_ROWS>>
    ELSE clamp_pty_size(requested[c][1], requested[c][2])

\* C10: the first shell_request spawns the PTY with the clamped size of the
\* latest pty_request, or 80x24 without one, answers success, stores the
\* writer under its channel and starts one forwarding task; data for that
\* channel then goes to the input of that PTY and of no other; pty_request
\* records the clamped size and answers success without spawning or touching
\* the writer map or the shell-requested flag.
C10_ShellSpawn ==
    [][LET c == last'.conn
           ch == last'.ch
           op == last'.op IN
       c \in Conns =>
          /\ (op = "shell_request" /\ Len(ptys'[c]) = Len(ptys[c]) + 1) =>
               /\ ~shell_requested[c] /\ ptys[c] = <<>>
               /\ Len(ptys'[c]) = 1
               /\ ptys'[c][1].ch = ch
               /\ ptys'[c][1].size = NegotiatedSize(c)
               /\ ptys'[c][1].input = <<>>
               /\ ptys'[c][1].writer
               /\ ptys'[c][1].task = "reading"
               /\ pty_writers'[c] = [NoWriters EXCEPT ![ch] = 1]
               /\ last'.ret = "Ok" /\ last'.reply = "success"
          /\ (op = "data" /\ pty_writers[c][ch] # 0) =>
               LET i == pty_writers[c][ch] IN
                 /\ ptys[c][i].ch = ch
                 /\ \/ ptys'[c] = ptys[c]
                    \/ \E b \in Payloads : \E k \in 1..Len(b) :
                         ptys'[c] = [ptys[c] EXCEPT ![i].input = @ \o SubSeq(b, 1, k)]
          /\ op = "pty_request" =>
               /\ requested'[c] \in DimInputs
               /\ pty_size'[c] = clamp_pty_size(requested'[c][1], requested'[c][2])
               /\ last'.ret = "Ok" /\ last'.reply = "success"
               /\ UNCHANGED <<shell_requested, pty_writers, ptys, spawn_attempts>>]_vars

\* C10 witness: a PTY spawned at the 200x50 of the pty_request has received
\* the payload sent on its channel
C10_Witness ==
    /\ requested[1] = <<200, 50>>
    /\ Len(ptys[1]) = 1
    /\ ptys[1][1].ch = 1
    /\ ptys[1][1].size = <<200, 50>>
    /\ ptys[1][1].input = <<"b", "c">>
    /\ ptys[1][1].writer /\ ptys[1][1].task = "reading"
    /\ last = Call(1, "data", 1, "Ok", "none")

\* C11: with a maximum session duration configured, no connection is still
\* connected after more than that duration has passed since its session was
\* created, whatever the client keeps sending.
C11_DeadlineEnforced ==
    \A c \in Conns :
        (max_session_duration > 0 /\ conn[c] = "session")
            => elapsed[c] <= max_session_duration

\* The pending read of the forwarding task of PTY i can return end-of-stream
\* or a read error in this state, so that the task leaves its loop
ObservesClosure(c, i) == ENABLED (TaskReadEof(c, i) \/ TaskReadError(c, i))

\* C12: once channel_close was handled for the channel of a PTY, its
\* forwarding task, when it waits in the read with no output left to return,
\* observes the closure of the stream and terminates: the read does not wait
\* for the program to exit or to write.
C12_CloseEndsTask ==
    \A c \in Conns : \A i \in DOMAIN ptys[c] :
        (ptys[c][i].closed /\ ptys[c][i].task = "reading" /\ ptys[c][i].out = 0)
            => ObservesClosure(c, i)

\* C13: once the handler of a connection is dropped, every writer of the
\* connection is dropped, and a forwarding task of the connection that waits
\* in the read with no output left to return observes the closure of the
\* stream and terminates instead of holding the read end for good.
C13_TeardownReleases ==
    \A c \in Conns :
        conn[c] = "dropped" =>
            /\ pty_writers[c] = NoWriters
            /\ \A i \in DOMAIN ptys[c] :
                  /\ ~ptys[c][i].writer
                  /\ (ptys[c][i].task = "reading" /\ ptys[c][i].out = 0)
                        => ObservesClosure(c, i)

\* The messages are consecutive chunks of the output of the program, from its
\* first byte on: none dropped, duplicated or out of order, none empty
InOrder(sent) ==
    \A k \in DOMAIN sent :
        /\ sent[k][2] > 0
        /\ sent[k][1] = IF k = 1 THEN 0 ELSE sent[k - 1][1] + sent[k - 1][2]

SentBytes(sent) == IF sent = <<>> THEN 0 ELSE sent[Len(sent)][1] + sent[Len(sent)][2]

\* What a step leaves of the output direction of PTY p, which becomes q: the
\* messages sent are a prefix of what was read, which is a prefix of what the
\* program wrote, and a message is only ever added at the end
OutputKept(p, q) ==
    /\ InOrder(q.sent)
    /\ SentBytes(q.sent) + q.buf <= q.nread
    /\ q.task # "done" => SentBytes(q.sent) + q.buf = q.nread
    /\ q.nread + q.out >= p.nread + p.out
    /\ \/ q.sent = p.sent
       \/ \E m \in {q.sent[Len(q.sent)]} : q.sent = Append(p.sent, m)

\* What a window_change_request leaves of the size of PTY p, which becomes q
ResizeKept(p, q) ==
    \/ q.size = p.size
    \/ \E d \in DimInputs : q.size = clamp_pty_size(d[1], d[2])

\* C14 as stated: every data event handled while its channel has a writer
\* adds its whole payload to the end of the PTY input; the messages sent by
\* the forwarding task are a prefix of the PTY output in the order read;
\* a window_change_request leaves the size of its own request.
C14_PayloadsConcatenated ==
    [][LET c == last'.conn
           ch == last'.ch
           op == last'.op IN
       (c \in Conns /\ ptys[c] # <<>> /\ Len(ptys'[c]) = Len(ptys[c])) =>
          /\ (op = "data" /\ pty_writers[c][ch] # 0) =>
                \E b \in Payloads :
                    ptys'[c][1].input = ptys[c][1].input \o b
          /\ op = "window_change_request" => ResizeKept(ptys[c][1], ptys'[c][1])
          /\ OutputKept(ptys[c][1], ptys'[c][1])]_vars

\* C14 amended: every data event handled while its channel has a writer adds
\* to the end of the PTY input the bytes its write wrote, the whole payload
\* when the write succeeded and a prefix of it when it failed, and changes
\* nothing that was written before; the messages sent by the forwarding task
\* are a prefix of the PTY output in the order read; a window_change_request
\* leaves the size of its own request.
C14_OrderKept ==
    [][LET c == last'.conn
           ch == last'.ch
           op == last'.op IN
       (c \in Conns /\ ptys[c] # <<>> /\ Len(ptys'[c]) = Len(ptys[c])) =>
          /\ (op = "data" /\ pty_writers[c][ch] # 0) =>
                \E b \in Payloads : \E k \in 0..Len(b) :
                    ptys'[c][1].input = ptys[c][1].input \o SubSeq(b, 1, k)
          /\ op # "data" => ptys'[c][1].input = ptys[c][1].input
          /\ op = "window_change_request" => ResizeKept(ptys[c][1], ptys'[c][1])
          /\ op # "window_change_request" => ptys'[c][1].size = ptys[c][1].size
          /\ OutputKept(ptys[c][1], ptys'[c][1])]_vars

\* C14 witness: the PTY received the first byte of payload "bc", whose write
\* failed, and then payload "a", and its task forwarded the 5000 bytes the
\* program wrote as a chunk of 4096 and a chunk of 904
C14_Witness ==
    /\ Len(ptys[1]) = 1
    /\ ptys[1][1].input = <<"b", "a">>
    /\ ptys[1][1].sent = << <<0, 4096>>, <<4096, 904>> >>

\* The PTY of connection c whose write end the map holds under channel ch:
\* spawned for ch, write end open, ch not closed since
HasOpenWriter(c, ch) ==
    \E i \in DOMAIN ptys[c] :
        ptys[c][i].ch = ch /\ ptys[c][i].writer /\ ~ptys[c][i].closed

C16_OneShotFlag ==
    [][LET c == last'.conn
           op == last'.op IN
       c \in Conns =>
          /\ shell_requested[c] => shell_requested'[c]
          /\ op = "shell_request" => shell_requested'[c]
          /\ (op = "shell_request" /\ spawn_attempts[c] >= 1) =>
                /\ spawn_attempts'[c] = spawn_attempts[c]
                /\ ptys'[c] = ptys[c]
                /\ pty_writers'[c] = pty_writers[c]
                /\ disconnect'[c] = "duplicate shell request"
          /\ (spawn_attempts[c] >= 1 /\ ptys[c] = <<>>) =>
                ptys'[c] = <<>> /\ pty_writers'[c] = NoWriters]_vars

\* C16 witness: the first shell_request failed to spawn, and the next one, on
\* the other channel, got the connection disconnected without a PTY
C16_Witness ==
    /\ last = Call(1, "shell_request", 1, "Ok", "none")
    /\ disconnect[1] = "duplicate shell request"
    /\ spawn_attempts[1] = 1
    /\ ptys[1] = <<>>
    /\ shell_requested[1]

\* C17: an iteration of the forwarding task does one of these: end-of-stream
\* or a read error other than would-block closes the channel and ends the
\* task; a read of n bytes, 1 <= n <= 4096, takes them from the PTY output
\* and is followed by one channel-data message with exactly these bytes,
\* after which the loop reads again, or by a failed forwarding, which ends
\* the task without closing the channel; would-block changes nothing.  The
\* task ends in no other step.
C17_LoopOutcomes ==
    [][\A c \in Conns :
          (ptys[c] # <<>> /\ Len(ptys'[c]) = Len(ptys[c])) =>
            LET p == ptys[c][1]
                q == ptys'[c][1]
                r == last'.ret
                task == last'.conn = c /\ last'.op = "forwarding_task"
            IN /\ (task /\ r \in {"eof", "error"}) =>
                     /\ p.task = "reading"
                     /\ q = [p EXCEPT !.task = "done", !.closes = p.closes + 1]
                     /\ last'.reply = "close"
               /\ (task /\ r = "bytes") =>
                     /\ p.task = "reading"
                     /\ 1 <= q.buf /\ q.buf <= BUF_LEN /\ q.buf <= p.out
                     /\ q = [p EXCEPT !.out = p.out - q.buf, !.buf = q.buf,
                                       !.nread = p.nread + q.buf,
                                       !.reads = p.reads + 1, !.task = "forwarding"]
               /\ (task /\ r = "forwarded") =>
                     /\ p.task = "forwarding"
                     /\ q = [p EXCEPT !.sent = Append(p.sent, <<p.nread - p.buf, p.buf>>),
                                       !.buf = 0, !.task = "reading"]
                     /\ last'.reply = "data"
               /\ (task /\ r = "forward_failed") =>
                     /\ p.task = "forwarding"
                     /\ q = [p EXCEPT !.buf = 0, !.task = "done"]
                     /\ last'.reply = "none"
               /\ (task /\ r = "would_block") => q = p /\ last'.reply = "none"
               /\ task => r \in {"eof", "error", "bytes", "forwarded", "forward_failed",
                                  "would_block"}
               /\ (p.task # "done" /\ q.task = "done") =>
                     task /\ r \in {"eof", "error", "forward_failed"}
               /\ ~task => /\ q.task = p.task /\ q.sent = p.sent
                            /\ q.closes = p.closes /\ q.buf = p.buf]_vars

\* C17 witness: the task forwarded a chunk of 4096 bytes, read the remaining
\* 904, failed to forward them because the session was gone, and ended
\* without closing the channel
C17_Witness ==
    /\ last = Call(1, "forwarding_task", 0, "forward_failed", "none")
    /\ Len(ptys[1]) = 1
    /\ ptys[1][1].task = "done"
    /\ ptys[1][1].sent = << <<0, 4096>> >>
    /\ ptys[1][1].nread = 5000
    /\ ptys[1][1].closes = 0

\* C18: the size pty_request stores is the request itself brought into
\* 10..500 columns and 5..200 rows: the minimum for a request below the
\* range, the maximum for a request above it, 65535 and beyond included.
C18_TrueClamp ==
    \A c \in Conns :
        requested[c] # <<>> =>
            pty_size[c] = << Clamp(requested[c][1], MIN_PTY_COLS, MAX_PTY_COLS),
                             Clamp(requested[c][2], MIN_PTY_ROWS, MAX_PTY_ROWS) >>

\* C19: env_request, x11_request, signal and channel_eof answer nothing,
\* return Ok, ask for no disconnect, spawn nothing and leave the
\* shell-requested flag, the stored size, the writer map and every PTY with
\* its forwarding task as they were.
C19_NoOps ==
    [][LET c == last'.conn IN
       (c \in Conns /\ last'.op \in {"env_request", "x11_request", "signal", "channel_eof"}) =>
          /\ last'.ret = "Ok" /\ last'.reply = "none"
          /\ disconnect'[c] = "none" /\ conn'[c] = "session"
          /\ UNCHANGED <<shell_requested, pty_size, pty_writers, ptys, spawn_attempts,
                         active_connections>>]_vars

\* C19 witness: the client half-closed while its shell was running: the PTY
\* keeps its writer and its forwarding task
C19_Witness ==
    /\ last = Call(1, "channel_eof", -1, "Ok", "none")
    /\ Dispatching(1)
    /\ Len(ptys[1]) = 1
    /\ pty_writers[1][0] = 1
    /\ ptys[1][1].writer /\ ptys[1][1].task = "reading"
    /\ ptys[1][1].input = <<"a">>

\* C20: data and window_change_request return Ok, answer nothing, ask for no
\* disconnect and leave the handler as it was, whether the PTY operation
\* succeeded or failed; without a writer for the channel they touch no PTY,
\* and with one they touch the input, respectively the size, of that PTY
\* only; a PTY starts with an empty input, so data handled before the shell
\* request is not delivered later.
C20_DataNeverFails ==
    [][LET c == last'.conn
           ch == last'.ch
           op == last'.op IN
       c \in Conns =>
          /\ op \in {"data", "window_change_request"} =>
                /\ last'.ret = "Ok" /\ last'.reply = "none"
                /\ disconnect'[c] = "none" /\ conn'[c] = "session"
                /\ UNCHANGED <<shell_requested, pty_size, pty_writers, spawn_attempts,
                               active_connections>>
                /\ pty_writers[c][ch] = 0 => ptys' = ptys
                /\ pty_writers[c][ch] # 0 =>
                      LET i == pty_writers[c][ch] IN
                        \/ ptys' = ptys
                        \/ op = "data" /\
                             ptys' = [ptys EXCEPT ![c][i].input = ptys'[c][i].input]
                        \/ op = "window_change_request" /\
                             ptys' = [ptys EXCEPT ![c][i].size = ptys'[c][i].size]
          /\ (op = "shell_request" /\ Len(ptys'[c]) > Len(ptys[c])) =>
                ptys'[c][Len(ptys'[c])].input = <<>>]_vars

\* C20 witness: the write of payload "bc" failed after its first byte; the
\* handler returned Ok and the connection and the writer are still there
C20_Witness ==
    /\ last = Call(1, "data", 0, "Ok", "none")
    /\ Dispatching(1)
    /\ pty_writers[1][0] = 1
    /\ ptys[1][1].writer
    /\ ptys[1][1].input = <<"b">>

\* The locks as the position of the dispatch task requires them: none held
\* between two handlers, the lock of the map over the whole use of a writer,
\* the lock of the writer of the channel while the handler writes or resizes
LocksAsHeld(c) ==
    LET h == handling[c] IN
    /\ h = Idle => /\ map_lock[c] = "free"
                   /\ \A i \in PtyIds : writer_lock[c][i] = "free"
    /\ h # Idle => /\ map_lock[c] = "dispatch"
                   /\ h.op \in {"data", "window_change_request"}
                   /\ WriterFor(c, h.ch) # 0
                   /\ \A i \in PtyIds :
                        writer_lock[c][i] = "dispatch" =>
                            h.at = "writer_locked" /\ i = WriterFor(c, h.ch)
    /\ h.at = "writer_locked" => writer_lock[c][WriterFor(c, h.ch)] = "dispatch"

\* No lock stands between the forwarding task of PTY i and its next step: it
\* reads when there is output and hands over its chunk when the queue has
\* room, whatever the dispatch task holds
TaskFreeOfLocks(c, i) ==
    LET p == ptys[c][i] IN
    /\ (p.task = "reading" /\ p.out > 0 /\ p.reads < MaxReads)
          => ENABLED TaskReadBytes(c, i)
    /\ (p.task = "forwarding" /\ queue[c] < QueueCap /\ conn[c] = "session")
          => ENABLED TaskEnqueue(c, i)

\* C21: a PTY is written to or resized only by the one handler the dispatch
\* task is in, while that handler holds the lock of the writer of the PTY,
\* taken after the lock of the map and with it still held, so that no two
\* operations on one writer overlap; and no step of the forwarding task
\* takes, releases or waits for the lock of the map or of a writer.
C21_LockDiscipline ==
    /\ [](\A c \in Conns :
            /\ LocksAsHeld(c)
            /\ \A i \in DOMAIN ptys[c] : TaskFreeOfLocks(c, i))
    /\ [][\A c \in Conns :
            /\ \A i \in DOMAIN ptys[c] :
                 /\ ptys'[c][i].input # ptys[c][i].input =>
                       /\ handling[c].op = "data"
                       /\ WriterFor(c, handling[c].ch) = i
                       /\ writer_lock[c][i] = "dispatch" /\ map_lock[c] = "dispatch"
                 /\ ptys'[c][i].size # ptys[c][i].size =>
                       /\ handling[c].op = "window_change_request"
                       /\ WriterFor(c, handling[c].ch) = i
                       /\ writer_lock[c][i] = "dispatch" /\ map_lock[c] = "dispatch"
                 /\ (writer_lock[c][i] = "free" /\ writer_lock'[c][i] = "dispatch") =>
                       map_lock[c] = "dispatch" /\ map_lock'[c] = "dispatch"
            /\ (last'.conn = c /\ last'.op = "forwarding_task") =>
                  UNCHANGED <<map_lock, writer_lock, handling>>]_vars

\* C21 witness: the forwarding task handed a chunk over while the data
\* handler was suspended in write_all with both locks held
C21_Witness ==
    /\ last = Call(1, "forwarding_task", 0, "forwarded", "data")
    /\ handling[1].op = "data" /\ handling[1].at = "writer_locked"
    /\ handling[1].left = <<"c">>
    /\ map_lock[1] = "dispatch"
    /\ writer_lock[1][1] = "dispatch"
    /\ queue[1] = 1

\* C22: the stored size of a connection changes in pty_request only, which
\* stores the clamped size whatever its channel; window_change_request
\* leaves the stored size alone and, when its channel has no writer, changes
\* nothing at all; a successful shell_request spawns with the stored size,
\* that of the latest pty_request on any channel or 80x24, whatever its own
\* channel.
C22_SizeFromPtyRequest ==
    [][\A c \in Conns :
          LET ch == last'.ch
              op == IF last'.conn = c THEN last'.op ELSE "none"
          IN /\ op = "window_change_request" =>
                   /\ pty_size'[c] = pty_size[c]
                   /\ requested'[c] = requested[c]
                   /\ pty_writers[c][ch] = 0 =>
                        UNCHANGED <<hst, ptys, disconnect, conn, spawn_attempts>>
             /\ pty_size'[c] # pty_size[c] =>
                   \/ op = "pty_request"
                   \/ /\ last' = NoCall
                      /\ pty_size'[c] = <<DEFAULT_COLS, DEFAULT_ROWS>>
             /\ op = "pty_request" =>
                   /\ pty_size'[c] = clamp_pty_size(requested'[c][1], requested'[c][2])
                   /\ pty_size'[c] = NegotiatedSize(c)'
             /\ op # "pty_request" => requested'[c] = requested[c]
             /\ (op = "shell_request" /\ Len(ptys'[c]) = Len(ptys[c]) + 1) =>
                   LET new == ptys'[c][Len(ptys'[c])] IN
                     /\ new.ch = ch
                     /\ new.size = pty_size[c]
                     /\ new.size = NegotiatedSize(c)]_vars

\* C22 witness: after a pty_request for 200x50, a window change arrived on
\* channel 0 before any shell request and left everything as it was: a shell
\* requested now on channel 1 is spawned at 200x50
C22_Witness ==
    /\ last = Call(1, "window_change_request", 0, "Ok", "none")
    /\ ptys[1] = <<>> /\ ~shell_requested[1]
    /\ requested[1] = <<200, 50>>
    /\ pty_size[1] = <<200, 50>>
    /\ ENABLED (/\ shell_request(1, 1)
                /\ Len(ptys'[1]) = 1
                /\ ptys'[1][1].ch = 1
                /\ ptys'[1][1].size = <<200, 50>>)

\* The data handler of connection c is suspended in write_all on PTY i, both
\* locks held: a part of its payload is left and the input buffer is full
WriteSuspended(c, i) ==
    /\ handling[c].op = "data" /\ handling[c].at = "writer_locked"
    /\ WriterFor(c, handling[c].ch) = i
    /\ map_lock[c] = "dispatch" /\ writer_lock[c][i] = "dispatch"
    /\ handling[c].left # <<>>
    /\ inbuf[c][i] = InCap

\* The forwarding task of PTY i is suspended in handle.data: the queue is full
ForwardSuspended(c, i) ==
    ptys[c][i].task = "forwarding" /\ queue[c] = QueueCap

\* The program of PTY i is blocked in a write: the output buffer is full
ProgramBlocked(c, i) ==
    /\ ptys[c][i].child = "running"
    /\ owes[c][i] > 0
    /\ ptys[c][i].out = OutCap

\* C23: in no reachable state is the data handler suspended in the PTY write,
\* holding the lock of the map and of the writer, while the forwarding task
\* is suspended handing output to the channel and the program is blocked
\* writing output, a state that none of the three can leave, so that the
\* data handler never returns.
C23_NoDeadlock ==
    \A c \in Conns : \A i \in DOMAIN ptys[c] :
        ~ (WriteSuspended(c, i) /\ ForwardSuspended(c, i) /\ ProgramBlocked(c, i))

====
